---------------------------- MODULE Spec2Model ----------------------------
(***************************************************************************)
(* A model of MatplotlibCustomPlot.CustomBoxPlot (CustomBoxPlot.py): the   *)
(* tick registry of one renderer, the argument normalisation of            *)
(* add_boxplot, its fan-out over the rows of 2-D data, and the calls it    *)
(* issues to the matplotlib axes.                                          *)
(*                                                                         *)
(* Python values are records [t |-> type name, v |-> payload]; a str       *)
(* carries the sequence of its characters, so that len() and indexing of   *)
(* a str behave as they do in Python.  Floats are records                  *)
(* [nan |-> BOOLEAN, v |-> Int]: the data the model draws has integer      *)
(* mean and standard deviation.  x coordinates are kept in tenths          *)
(* (position - 0.1 is 10 * position - 1).                                  *)
(***************************************************************************)
EXTENDS Integers, Sequences, FiniteSets, TLC

VARIABLES
    current_positions,   \* self.current_positions: list of registered positions
    current_ticklabels,  \* self.current_ticklabels: list of their labels
    xticks,              \* the axes' tick locations, as last set by set_xticks
    xticklabels,         \* the axes' tick labels, as last set by set_xticklabels
    calls,               \* the calls the axes received from the latest operation
    raised,              \* the exception the latest operation raised, or "none"
    op,                  \* the latest operation's name
    args,                \* the latest operation's arguments
    before               \* the registry and the ticks before the latest operation

vars == <<current_positions, current_ticklabels, xticks, xticklabels,
          calls, raised, op, args, before>>

---------------------------------------------------------------------------
(* Bounds of the model.                                                    *)

MaxPos == 3       \* positions are drawn from 1..MaxPos
MaxSeries == 2    \* 2-D data has up to MaxSeries rows

Positions == 1..MaxPos

---------------------------------------------------------------------------
(* Python values.                                                          *)

PyNone == [t |-> "NoneType", v |-> <<>>]
PyInt(i) == [t |-> "int", v |-> i]
PyBool(b) == [t |-> "bool", v |-> b]
PyStr(chars) == [t |-> "str", v |-> chars]
PyList(elems) == [t |-> "list", v |-> elems]
PyTuple(elems) == [t |-> "tuple", v |-> elems]

Float(x) == [nan |-> FALSE, v |-> x]
NaN == [nan |-> TRUE, v |-> 0]

\* numpy.ndarray: its shape and its elements in row-major order.
NdArray(shape, flat) == [t |-> "ndarray", v |-> [shape |-> shape, flat |-> flat]]

ndim(data) == Len(data.v.shape)

\* data[index, :] of a 2-D array (index counted from 1 here).
RowOf(data, index) ==
    LET cols == data.v.shape[2]
    IN  NdArray(<<cols>>, SubSeq(data.v.flat, (index - 1) * cols + 1, index * cols))

\* isinstance(value, itype) for itype in int, str, bool; bool is a subclass of int.
isinstance(value, itype) ==
    CASE itype = "int" -> value.t \in {"int", "bool"}
      [] itype = "str" -> value.t = "str"
      [] itype = "bool" -> value.t = "bool"

\* isinstance(value, typing.Sequence): list, tuple and str are Sequences.
isSequence(value) == value.t \in {"list", "tuple", "str"}

len(value) == Len(value.v)

\* value[index] (index counted from 1 here); indexing a str gives a str.
getitem(value, index) ==
    IF value.t = "str" THEN PyStr(<<value.v[index]>>) ELSE value.v[index]

\* The int a position stands for in arithmetic and comparisons (True == 1).
IntVal(value) ==
    IF value.t = "bool" THEN (IF value.v THEN 1 ELSE 0) ELSE value.v

---------------------------------------------------------------------------
(* convert2sequence, the nested function of add_boxplot.                   *)

\* [value for index in range(N)]
Broadcast(value, N) == [index \in 1..N |-> value]

\* The length test with N off by one.
LengthOk_OffByOne(value, N) == len(value) = N - 1

\* len(value) == N
LengthOk(value, N) == len(value) = N

\* The element test applied to value[0] alone.
ElementsOk_FirstOnly(value, itype) ==
    len(value) = 0 \/ isinstance(getitem(value, 1), itype)

\* for index in range(len(value)): isinstance(value[index], itype)
ElementsOk(value, itype) ==
    \A index \in 1..len(value) : isinstance(getitem(value, index), itype)

convert2sequence(value, N, itype) ==
    IF isinstance(value, itype)
    THEN [exc |-> "none", seq |-> Broadcast(value, N)]
    ELSE IF isSequence(value)
    THEN IF ~LengthOk(value, N)
         THEN [exc |-> "ValueError", seq |-> <<>>]
         ELSE IF ~ElementsOk(value, itype)
         THEN [exc |-> "TypeError", seq |-> <<>>]
         ELSE [exc |-> "none", seq |-> [index \in 1..len(value) |-> getitem(value, index)]]
    ELSE [exc |-> "TypeError", seq |-> <<>>]

\* The eight parameters in the order add_boxplot converts them, and their itype.
ParamNames == <<"position", "label", "box_color", "average_color",
                "linewidth", "draw_whiskers", "draw_average", "print_average">>

ParamType == [position |-> "int", label |-> "str", box_color |-> "str",
              average_color |-> "str", linewidth |-> "int",
              draw_whiskers |-> "bool", draw_average |-> "bool",
              print_average |-> "bool"]

Params == {ParamNames[i] : i \in DOMAIN ParamNames}

\* if label is None: label = copy.deepcopy(position)
Given(a, name) ==
    IF name = "label" /\ a.label = PyNone THEN a.position ELSE a[name]

\* The eight conversions; the first that raises ends the call.
Converted(a, N) ==
    [name \in Params |-> convert2sequence(Given(a, name), N, ParamType[name])]

FirstExc(conv) ==
    LET bad == {i \in DOMAIN ParamNames : conv[ParamNames[i]].exc # "none"}
        first == CHOOSE i \in bad : \A j \in bad : i <= j
    IN  IF bad = {} THEN "none" ELSE conv[ParamNames[first]].exc

---------------------------------------------------------------------------
(* The NaN-aware reductions of numpy, on a 1-D array's elements.           *)

Finite(row) == SelectSeq(row, LAMBDA x : ~x.nan)

RECURSIVE Sum(_)
Sum(s) == IF s = <<>> THEN 0 ELSE Head(s).v + Sum(Tail(s))

RECURSIVE SumSqDev(_, _)
SumSqDev(s, m) ==
    IF s = <<>> THEN 0 ELSE (Head(s).v - m) * (Head(s).v - m) + SumSqDev(Tail(s), m)

Sqrt(n) == CHOOSE r \in 0..n : r * r <= n /\ n < (r + 1) * (r + 1)

\* numpy.nanmean: NaN (and a warning) when no element is left.
nanmean(row) ==
    LET fin == Finite(row)
    IN  IF fin = <<>> THEN NaN ELSE Float(Sum(fin) \div Len(fin))

\* numpy.nanstd: the population standard deviation of the elements left.
nanstd(row) ==
    LET fin == Finite(row)
    IN  IF fin = <<>> THEN NaN
        ELSE Float(Sqrt(SumSqDev(fin, nanmean(row).v) \div Len(fin)))

\* numpy.nanmin / numpy.nanmax: ValueError on a zero-size array, NaN (and a
\* warning) on an all-NaN one.
nanmin(row) ==
    LET fin == Finite(row)
    IN  IF row = <<>> THEN [exc |-> "ValueError", val |-> NaN]
        ELSE IF fin = <<>> THEN [exc |-> "none", val |-> NaN]
        ELSE [exc |-> "none",
              val |-> Float(CHOOSE m \in {fin[i].v : i \in DOMAIN fin} :
                              \A i \in DOMAIN fin : m <= fin[i].v)]

nanmax(row) ==
    LET fin == Finite(row)
    IN  IF row = <<>> THEN [exc |-> "ValueError", val |-> NaN]
        ELSE IF fin = <<>> THEN [exc |-> "none", val |-> NaN]
        ELSE [exc |-> "none",
              val |-> Float(CHOOSE m \in {fin[i].v : i \in DOMAIN fin} :
                              \A i \in DOMAIN fin : m >= fin[i].v)]

FAdd(x, y) == IF x.nan \/ y.nan THEN NaN ELSE Float(x.v + y.v)
FSub(x, y) == IF x.nan \/ y.nan THEN NaN ELSE Float(x.v - y.v)

\* f'{mean:.2f}'
Format2f(x) == IF x.nan THEN "nan" ELSE ToString(x.v) \o ".00"

---------------------------------------------------------------------------
(* The calls the axes receive.  Every call is a record of the same shape:  *)
(* xs and ys are its x and y arguments, color and lw the style values it   *)
(* was handed, text a string, ticks and labels the tick arguments.         *)

Call(name, xs, ys, color, lw, text, ticks, labels) ==
    [op |-> name, xs |-> xs, ys |-> ys, color |-> color, lw |-> lw,
     text |-> text, ticks |-> ticks, labels |-> labels]

\* self.ax.add_patch(Rectangle((x, y), w, h, fill=False, edgecolor=.., linewidth=..))
Rectangle(x, y, w, h, color, lw) ==
    Call("add_patch", <<x, w>>, <<y, h>>, color, lw, "", <<>>, <<>>)

\* self.ax.plot(xs, ys, color=.., lw=..)
Plot(xs, ys, color, lw) == Call("plot", xs, ys, color, lw, "", <<>>, <<>>)

\* self.ax.text(x, y, s, verticalalignment='center', color=.., ...)
Text(x, y, s, color) == Call("text", <<x>>, <<y>>, color, PyNone, s, <<>>, <<>>)

SetXticks(ticks) == Call("set_xticks", <<>>, <<>>, PyNone, PyNone, "", ticks, <<>>)

SetXticklabels(labels) ==
    Call("set_xticklabels", <<>>, <<>>, PyNone, PyNone, "", <<>>, labels)

\* set_title / set_xlabel / set_ylabel forward their text to the axes.
SetText(name, text) == Call(name, <<>>, <<>>, PyNone, PyNone, text, <<>>, <<>>)

---------------------------------------------------------------------------
(* add_boxplot on one series: the statistics, the drawing, the ticks.      *)

\* The whiskers gated by the flag of the average.
DrawWhiskers_FromAverage(s) == s.draw_average[1].v

\* if draw_whiskers[0]:
DrawWhiskers(s) == s.draw_whiskers[1].v

\* if draw_average[0]:
DrawAverage(s) == s.draw_average[1].v

\* if print_average[0]:
PrintAverage(s) == s.print_average[1].v

\* The membership test left out.
IsNewPosition_Always(self, position) == TRUE

\* The membership test against the last registered position alone.
IsNewPosition_LastOnly(self, position) ==
    LET n == Len(self.current_positions)
    IN  n = 0 \/ IntVal(self.current_positions[n]) # IntVal(position)

\* if position[0] not in self.current_positions:
IsNewPosition(self, position) ==
    \A i \in DOMAIN self.current_positions :
        IntVal(self.current_positions[i]) # IntVal(position)

\* The indices left in insertion order.
argsort_Unsorted(list) == [k \in 1..Len(list) |-> k]

\* numpy.argsort(list): the indices that sort the list (ascending, stable).
argsort(list) ==
    LET n == Len(list)
        rank(i) == Cardinality({j \in 1..n : \/ list[j] < list[i]
                                             \/ (list[j] = list[i] /\ j < i)})
    IN  [k \in 1..n |-> CHOOSE i \in 1..n : rank(i) = k - 1]

\* Lines 205-215: register a new position, sort, push the ticks to the axes.
UpdateTicks(self, position, label) ==
    IF ~IsNewPosition(self, position) THEN self
    ELSE
        LET positions == Append(self.current_positions, position)
            ticklabels == Append(self.current_ticklabels, label)
            sorted_indices == argsort([i \in DOMAIN positions |-> IntVal(positions[i])])
            sorted_positions ==
                [k \in DOMAIN sorted_indices |-> IntVal(positions[sorted_indices[k]])]
            sorted_ticklabels ==
                [k \in DOMAIN sorted_indices |-> ticklabels[sorted_indices[k]]]
        IN  [current_positions |-> positions,
             current_ticklabels |-> ticklabels,
             xticks |-> sorted_positions,
             xticklabels |-> sorted_ticklabels,
             calls |-> self.calls \o <<SetXticks(sorted_positions),
                                       SetXticklabels(sorted_ticklabels)>>]

\* Lines 172-215: the branch taken for 1-D data; s holds the converted sequences.
Leaf(self, data, s) ==
    LET row == data.v.flat
        mean == nanmean(row)
        std == nanstd(row)
        min_val == nanmin(row)
        max_val == nanmax(row)
    IN  IF min_val.exc # "none" THEN [exc |-> min_val.exc, self |-> self]
        ELSE
        LET center == mean
            box_start == FSub(mean, std)
            box_end == FAdd(mean, std)
            whisker_min == min_val.val
            whisker_max == max_val.val
            x == 10 * IntVal(s.position[1])
            box_color == s.box_color[1]
            average_color == s.average_color[1]
            linewidth == s.linewidth[1]
            rect == <<Rectangle(x - 1, box_start, 2, FSub(box_end, box_start),
                                box_color, linewidth)>>
            whiskers ==
                IF DrawWhiskers(s)
                THEN <<Plot(<<x, x>>, <<whisker_min, box_start>>, box_color, linewidth),
                       Plot(<<x, x>>, <<box_end, whisker_max>>, box_color, linewidth),
                       Plot(<<x - 1, x + 1>>, <<whisker_min, whisker_min>>,
                            box_color, linewidth),
                       Plot(<<x - 1, x + 1>>, <<whisker_max, whisker_max>>,
                            box_color, linewidth)>>
                ELSE <<>>
            average ==
                IF DrawAverage(s)
                THEN <<Plot(<<x - 1, x + 1>>, <<center, center>>, average_color, linewidth)>>
                ELSE <<>>
            text ==
                IF PrintAverage(s)
                THEN <<Text(x + 2, center, Format2f(mean), average_color)>>
                ELSE <<>>
            drawn == [self EXCEPT !.calls = @ \o rect \o whiskers \o average \o text]
        IN  [exc |-> "none", self |-> UpdateTicks(drawn, s.position[1], s.label[1])]

---------------------------------------------------------------------------
(* add_boxplot.                                                            *)

\* The recursive call handed label[0] for every row.
RowArgs_FirstLabel(data, s, index) ==
    [data |-> RowOf(data, index),
     position |-> s.position[index],
     label |-> s.label[1],
     box_color |-> s.box_color[index],
     average_color |-> s.average_color[index],
     linewidth |-> s.linewidth[index],
     draw_whiskers |-> s.draw_whiskers[index],
     draw_average |-> s.draw_average[index],
     print_average |-> s.print_average[index]]

\* Lines 161-169: the arguments of the recursive call for row index.
RowArgs(data, s, index) ==
    [data |-> RowOf(data, index),
     position |-> s.position[index],
     label |-> s.label[index],
     box_color |-> s.box_color[index],
     average_color |-> s.average_color[index],
     linewidth |-> s.linewidth[index],
     draw_whiskers |-> s.draw_whiskers[index],
     draw_average |-> s.draw_average[index],
     print_average |-> s.print_average[index]]

RECURSIVE add_boxplot(_, _)
RECURSIVE RowLoop(_, _, _, _)

\* for index in range(N): self.add_boxplot(data[index,:], ...); an exception
\* raised by a row's call ends the loop and the call.
RowLoop(self, data, s, index) ==
    IF index > data.v.shape[1] THEN [exc |-> "none", self |-> self]
    ELSE LET r == add_boxplot(self, RowArgs(data, s, index))
         IN  IF r.exc # "none" THEN r ELSE RowLoop(r.self, data, s, index + 1)

\* self is the renderer (its registry, the axes' ticks and the calls the axes
\* received so far); the result is the exception raised and self afterwards.
add_boxplot(self, a) ==
    IF a.data.t # "ndarray" THEN [exc |-> "TypeError", self |-> self]
    ELSE IF ndim(a.data) >= 3 THEN [exc |-> "ValueError", self |-> self]
    ELSE IF ndim(a.data) = 0 THEN [exc |-> "IndexError", self |-> self]
    ELSE
        LET N == a.data.v.shape[1]
            conv == Converted(a, N)
            exc == FirstExc(conv)
            s == [name \in Params |-> conv[name].seq]
        IN  IF exc # "none" THEN [exc |-> exc, self |-> self]
            ELSE IF ndim(a.data) = 2 THEN RowLoop(self, a.data, s, 1)
            ELSE Leaf(self, a.data, s)

---------------------------------------------------------------------------
(* The arguments the model calls add_boxplot with.                         *)

black == PyStr(<<"b", "l", "a", "c", "k">>)
red == PyStr(<<"r", "e", "d">>)
blue == PyStr(<<"b", "l", "u", "e">>)
LabelA == PyStr(<<"a">>)
LabelB == PyStr(<<"b">>)

\* The signature's defaults (lines 67-72).
DefaultArgs(data, position, label) ==
    [data |-> data, position |-> position, label |-> label,
     box_color |-> black, average_color |-> red, linewidth |-> PyInt(2),
     draw_whiskers |-> PyBool(TRUE), draw_average |-> PyBool(TRUE),
     print_average |-> PyBool(FALSE)]

Array1D(flat) == NdArray(<<Len(flat)>>, flat)

D04 == Array1D(<<Float(0), Float(4)>>)            \* mean 2, std 2
D2 == Array1D(<<Float(2)>>)                       \* one element
D0N4 == Array1D(<<Float(0), NaN, Float(4)>>)      \* three elements, one NaN
DAllNaN == Array1D(<<NaN, NaN>>)
DEmpty == Array1D(<<>>)
D0dim == NdArray(<<>>, <<Float(2)>>)              \* numpy.array(2.0)
D3dim == NdArray(<<1, 1, 2>>, <<Float(0), Float(4)>>)
DZeroCols == NdArray(<<2, 0>>, <<>>)              \* two rows, no column
NotArray == PyList(<<PyInt(0), PyInt(4)>>)        \* a list, not an ndarray

\* n rows of two columns; row i is (2i - 2, 2i + 2): mean 2i, std 2.
Data2D(n) ==
    NdArray(<<n, 2>>,
            [k \in 1..(2 * n) |->
                LET i == (k + 1) \div 2
                IN  IF k % 2 = 1 THEN Float(2 * i - 2) ELSE Float(2 * i + 2)])

Wrap(p) == ((p - 1) % MaxPos) + 1

\* Sequences of n positions: ascending from p, descending from p, all p.
PosSeqs(n) ==
    {[i \in 1..n |-> PyInt(Wrap(p + i - 1))] : p \in Positions}
    \cup {[i \in 1..n |-> PyInt(Wrap(p + MaxPos - i + 1))] : p \in Positions}
    \cup {[i \in 1..n |-> PyInt(p)] : p \in Positions}

Ascending(n) == [i \in 1..n |-> PyInt(Wrap(i))]

\* a, b, a, ... or b, a, b, ...
Alternate(n, first) ==
    [i \in 1..n |-> IF (i % 2 = 1) = first THEN LabelA ELSE LabelB]

\* One series, scalar arguments: every position with either label.
LeafRegistryArgs ==
    {DefaultArgs(D04, PyInt(p), l) : p \in Positions, l \in {LabelA, LabelB}}

\* One series, every combination of the three flags.
LeafFlagArgs ==
    {[DefaultArgs(D04, PyInt(1), LabelA) EXCEPT
          !.draw_whiskers = PyBool(w), !.draw_average = PyBool(v),
          !.print_average = PyBool(t)] : w \in BOOLEAN, v \in BOOLEAN, t \in BOOLEAN}

\* Every kind of data, with scalar arguments.
DataArgs ==
    {DefaultArgs(d, PyInt(1), LabelA) :
        d \in {D2, D0N4, DAllNaN, DEmpty, D0dim, D3dim, DZeroCols, NotArray, Data2D(0)}}

\* 1-D data of length L with position and label sequences of length 1 to 3.
SeqLeafArgs ==
    {DefaultArgs(d, PyList(Ascending(k)), PyList(Alternate(k, TRUE))) :
        d \in {D2, D04, D0N4}, k \in 1..3}

\* label omitted.
NoLabelArgs ==
    {DefaultArgs(D04, PyInt(p), PyNone) : p \in Positions}
    \cup {DefaultArgs(Data2D(MaxSeries), PyList(Ascending(MaxSeries)), PyNone)}

\* 2-D data with a sequence of positions and a sequence of labels.
RowsArgs ==
    {DefaultArgs(Data2D(MaxSeries), PyList(ps), PyList(Alternate(MaxSeries, TRUE))) :
        ps \in PosSeqs(MaxSeries)}

\* 2-D data with other labels, scalar positions, fewer rows, and the tuples of
\* the class's example.
TwoDArgs ==
    {DefaultArgs(Data2D(MaxSeries), PyList(ps), l) :
        ps \in PosSeqs(MaxSeries), l \in {LabelA, PyList(Alternate(MaxSeries, FALSE))}}
    \cup {DefaultArgs(Data2D(MaxSeries), PyInt(p), PyList(Alternate(MaxSeries, TRUE))) :
            p \in Positions}
    \cup {DefaultArgs(Data2D(1), PyList(<<PyInt(1)>>), PyList(<<LabelA>>)),
          DefaultArgs(Data2D(MaxSeries), PyTuple(Ascending(MaxSeries)),
                      PyTuple(Alternate(MaxSeries, TRUE)))}

\* A scalar of the parameter's type other than the one Base2D passes.
AltScalar(name) ==
    CASE name = "position" -> PyInt(MaxPos)
      [] name = "label" -> LabelB
      [] name \in {"box_color", "average_color"} -> blue
      [] name = "linewidth" -> PyInt(1)
      [] name \in {"draw_whiskers", "draw_average"} -> PyBool(FALSE)
      [] name = "print_average" -> PyBool(TRUE)

\* A value that is not of the parameter's type.
WrongElem(name) == IF ParamType[name] = "int" THEN LabelA ELSE PyInt(1)

Base2D == DefaultArgs(Data2D(MaxSeries), PyList(Ascending(MaxSeries)),
                      PyList(Alternate(MaxSeries, TRUE)))

WrongLast(name) ==
    PyList([i \in 1..MaxSeries |->
               IF i = MaxSeries THEN WrongElem(name) ELSE AltScalar(name)])

\* 2-D data with one parameter varied: another scalar, that scalar repeated N
\* times, a wrong element in the last row, a sequence one too long or one too
\* short, a scalar of the wrong type.
Variants(name) ==
    {AltScalar(name),
     PyList(Broadcast(AltScalar(name), MaxSeries)),
     WrongLast(name),
     PyList(Broadcast(AltScalar(name), MaxSeries + 1)),
     PyList(Broadcast(AltScalar(name), MaxSeries - 1)),
     IF name = "label" THEN PyInt(1) ELSE PyNone}

VariantArgs ==
    {[Base2D EXCEPT ![nv[1]] = nv[2]] :
        nv \in UNION {{<<n, v>> : v \in Variants(n)} : n \in Params}}

\* Calls that fail: no element to reduce, label omitted, a wrong element in the
\* last row, a sequence too long.
FailingArgs ==
    {DefaultArgs(DEmpty, PyInt(1), LabelA),
     DefaultArgs(D04, PyInt(1), PyNone),
     [Base2D EXCEPT !.draw_average = WrongLast("draw_average")],
     [Base2D EXCEPT !.position = PyList(Broadcast(PyInt(1), MaxSeries + 1))]}

\* The calls made over a renderer's lifetime.
SessionArgs == LeafRegistryArgs \cup RowsArgs \cup FailingArgs

\* The calls made from a given state of the renderer.
Args == LeafRegistryArgs \cup LeafFlagArgs \cup DataArgs \cup SeqLeafArgs
        \cup NoLabelArgs \cup RowsArgs \cup TwoDArgs \cup VariantArgs

NoArgs == DefaultArgs(PyNone, PyNone, PyNone)

Texts == {"text"}

---------------------------------------------------------------------------
(* The renderer over its lifetime.                                         *)

\* The renderer before an operation: the axes have received no call from it yet.
Self ==
    [current_positions |-> current_positions,
     current_ticklabels |-> current_ticklabels,
     xticks |-> xticks, xticklabels |-> xticklabels, calls |-> <<>>]

\* __init__: the axes are created and the registry is empty.
Init ==
    /\ current_positions = <<>>
    /\ current_ticklabels = <<>>
    /\ xticks = <<>>
    /\ xticklabels = <<>>
    /\ calls = <<>>
    /\ raised = "none"
    /\ op = "__init__"
    /\ args = NoArgs
    /\ before = Self

\* self.add_boxplot(a.data, a.position, a.label, box_color=a.box_color, ...)
Invoke(a) ==
    \E r \in {add_boxplot(Self, a)} :
        /\ current_positions' = r.self.current_positions
        /\ current_ticklabels' = r.self.current_ticklabels
        /\ xticks' = r.self.xticks
        /\ xticklabels' = r.self.xticklabels
        /\ calls' = r.self.calls
        /\ raised' = r.exc
        /\ op' = "add_boxplot"
        /\ args' = a
        /\ before' = Self

AddBoxplot == \E a \in SessionArgs : Invoke(a)

\* self.ax.set_title(title, *args, **kwargs)
SetTitle ==
    \E title \in Texts :
        /\ calls' = <<SetText("set_title", title)>>
        /\ raised' = "none"
        /\ op' = "set_title"
        /\ args' = NoArgs
        /\ before' = Self
        /\ UNCHANGED <<current_positions, current_ticklabels, xticks, xticklabels>>

\* self.ax.set_xlabel(xlabel, *args, **kwargs)
SetXlabel ==
    \E xlabel \in Texts :
        /\ calls' = <<SetText("set_xlabel", xlabel)>>
        /\ raised' = "none"
        /\ op' = "set_xlabel"
        /\ args' = NoArgs
        /\ before' = Self
        /\ UNCHANGED <<current_positions, current_ticklabels, xticks, xticklabels>>

\* self.ax.set_ylabel(ylabel, *args, **kwargs)
SetYlabel ==
    \E ylabel \in Texts :
        /\ calls' = <<SetText("set_ylabel", ylabel)>>
        /\ raised' = "none"
        /\ op' = "set_ylabel"
        /\ args' = NoArgs
        /\ before' = Self
        /\ UNCHANGED <<current_positions, current_ticklabels, xticks, xticklabels>>

Next == AddBoxplot \/ SetTitle \/ SetXlabel \/ SetYlabel

Spec == Init /\ [][Next]_vars

---------------------------------------------------------------------------
(* One call of add_boxplot from any state the registry can be in: every    *)
(* sequence of distinct positions, each with either label, is reached by   *)
(* one-series calls in that order, and the axes hold the ticks add_boxplot *)
(* pushed for it.                                                          *)

Registries ==
    {reg \in UNION {[1..n -> Positions \X {LabelA, LabelB}] : n \in 0..MaxPos} :
        \A i \in DOMAIN reg : \A j \in DOMAIN reg : i # j => reg[i][1] # reg[j][1]}

CallInit ==
    \E reg \in Registries :
        LET positions == [i \in DOMAIN reg |-> PyInt(reg[i][1])]
            ticklabels == [i \in DOMAIN reg |-> reg[i][2]]
            sorted_indices == argsort([i \in DOMAIN reg |-> reg[i][1]])
        IN  /\ current_positions = positions
            /\ current_ticklabels = ticklabels
            /\ xticks = [k \in DOMAIN reg |-> reg[sorted_indices[k]][1]]
            /\ xticklabels = [k \in DOMAIN reg |-> reg[sorted_indices[k]][2]]
            /\ calls = <<>>
            /\ raised = "none"
            /\ op = "earlier"
            /\ args = NoArgs
            /\ before = Self

CallOnce == op = "earlier" /\ \E a \in Args : Invoke(a)

CallNext == CallOnce

CallSpec == CallInit /\ [][CallNext]_vars

---------------------------------------------------------------------------
(* Vocabulary of the properties.                                           *)

IsCall == op = "add_boxplot"

Succeeded == IsCall /\ raised = "none"

IsArray(a) == a.data.t = "ndarray"

\* The renderer after the latest operation, with the calls the axes received.
Now ==
    [current_positions |-> current_positions,
     current_ticklabels |-> current_ticklabels,
     xticks |-> xticks, xticklabels |-> xticklabels, calls |-> calls]

Registered(self, p) ==
    \E i \in DOMAIN self.current_positions : IntVal(self.current_positions[i]) = p

\* The labels the registry holds for position p.
LabelsOf(self, p) ==
    {self.current_ticklabels[i] :
        i \in {j \in DOMAIN self.current_positions :
                 IntVal(self.current_positions[j]) = p}}

TickPushes(cs) == Cardinality({i \in DOMAIN cs : cs[i].op = "set_xticks"})

\* The value a parameter holds for series i: the i-th element of a list or a
\* tuple, the value itself otherwise.
Elem(value, i) == IF value.t \in {"list", "tuple"} THEN value.v[i] ELSE value

---------------------------------------------------------------------------
(* C1: in every state a renderer reaches through add_boxplot calls (1-D or *)
(* 2-D data, successful or failing) and set_title / set_xlabel /           *)
(* set_ylabel calls, current_positions and current_ticklabels have the     *)
(* same length and current_positions holds no value twice.                 *)
C1_RegistryParallelAndUnique ==
    /\ Len(current_positions) = Len(current_ticklabels)
    /\ \A i \in DOMAIN current_positions : \A j \in DOMAIN current_positions :
          i # j => IntVal(current_positions[i]) # IntVal(current_positions[j])

\* A 2-D call naming one position for both of its rows has run on a registry
\* that already held entries, and the registry is full.
C1_Witness ==
    /\ Succeeded
    /\ ndim(args.data) = 2
    /\ args.data.v.shape[1] >= 2
    /\ args.position.t = "list"
    /\ args.position.v[1] = args.position.v[2]
    /\ before.current_positions # <<>>
    /\ Len(current_positions) = MaxPos

(* C2: once position p is registered with label l, every later call at p   *)
(* (same or different label, a 1-D call or a row of a 2-D call) leaves p's *)
(* entry alone and pushes no ticks for it: the registry only grows at its  *)
(* end, p keeps exactly one entry with its first label, and the axes       *)
(* receive one tick push per position added, none otherwise.               *)
C2_FirstLabelKept ==
    [][/\ Len(current_positions') >= Len(current_positions)
       /\ SubSeq(current_positions', 1, Len(current_positions)) = current_positions
       /\ SubSeq(current_ticklabels', 1, Len(current_ticklabels)) = current_ticklabels
       /\ \A i \in DOMAIN current_positions :
             \A j \in DOMAIN current_positions' :
                IntVal(current_positions'[j]) = IntVal(current_positions[i]) => j = i
       /\ TickPushes(calls') = Len(current_positions') - Len(current_positions)]_vars

\* A one-series call has drawn at a position registered earlier under another
\* label: the first label stands and no ticks were pushed.
C2_Witness ==
    /\ Succeeded
    /\ ndim(args.data) = 1
    /\ Registered(before, IntVal(args.position))
    /\ LabelsOf(Now, IntVal(args.position)) = {LabelA}
    /\ args.label = LabelB
    /\ calls # <<>>
    /\ TickPushes(calls) = 0

(* C3: the tick locations last pushed to the axes are exactly the          *)
(* registered positions in strictly ascending order, and the i-th tick     *)
(* label pushed is the label registered with the i-th pushed position;     *)
(* the last push of the latest call is the one the axes hold.              *)
C3_TicksSortedAndAligned ==
    /\ Len(xticks) = Len(current_positions)
    /\ Len(xticklabels) = Len(xticks)
    /\ \A i \in 1..(Len(xticks) - 1) : xticks[i] < xticks[i + 1]
    /\ \A i \in DOMAIN xticks :
          \E j \in DOMAIN current_positions :
             /\ IntVal(current_positions[j]) = xticks[i]
             /\ current_ticklabels[j] = xticklabels[i]
    /\ \A k \in DOMAIN calls :
          (/\ calls[k].op = "set_xticklabels"
           /\ \A m \in DOMAIN calls : m > k => calls[m].op # "set_xticklabels")
          => /\ calls[k].labels = xticklabels
             /\ calls[k - 1].op = "set_xticks"
             /\ calls[k - 1].ticks = xticks

\* Positions 3, 1, 2 were registered in that order, the first under label b.
C3_Witness ==
    /\ Succeeded
    /\ current_positions = <<PyInt(3), PyInt(1), PyInt(2)>>
    /\ current_ticklabels = <<LabelB, LabelA, LabelA>>
    /\ xticks = <<1, 2, 3>>
    /\ xticklabels = <<LabelA, LabelA, LabelB>>

---------------------------------------------------------------------------
(* Properties of one call, checked under CallSpec.                         *)

\* The data is an array of one or two dimensions with at least one column.
HasSeries(a) ==
    /\ IsArray(a)
    /\ ndim(a.data) \in {1, 2}
    /\ a.data.v.shape[ndim(a.data)] >= 1

\* The number of series: the rows of 2-D data, one for 1-D data.
SeriesCount(data) == IF ndim(data) = 2 THEN data.v.shape[1] ELSE 1

\* A value of the parameter's type, or a list or tuple of such values.
WellTyped(a, name) ==
    \/ isinstance(a[name], ParamType[name])
    \/ /\ a[name].t \in {"list", "tuple"}
       /\ \A i \in DOMAIN a[name].v : isinstance(a[name].v[i], ParamType[name])

\* The lengths of the sequence-valued parameters.
SeqLengths(a) ==
    {Len(a[name].v) : name \in {n \in Params : a[n].t \in {"list", "tuple"}}}

(* C4: a call with label omitted, 1-D data and an integer position         *)
(* succeeds and registers the position's own value as its tick label       *)
(* ("5" for position 5).                                                   *)
C4_OmittedLabelIsPosition ==
    (/\ IsCall
     /\ HasSeries(args)
     /\ ndim(args.data) = 1
     /\ args.position.t = "int"
     /\ args.label = PyNone)
    => /\ raised = "none"
       /\ ~Registered(before, args.position.v)
            => LabelsOf(Now, args.position.v) = {PyStr(<<ToString(args.position.v)>>)}

(* C5: a call that fails (data not an array, data of 3 or more dimensions, *)
(* a parameter of a wrong type, element type or length, also when the      *)
(* wrong element belongs to a row other than the first) has issued no call *)
(* to the axes and leaves the registry and the ticks as they were.         *)
C5_FailedCallLeavesNoTrace ==
    (IsCall /\ raised # "none") => (calls = <<>> /\ Now = before)

\* A 2-D call whose draw_average is wrong in its last row only has raised
\* TypeError on a registry that held entries.
C5_Witness ==
    /\ IsCall
    /\ raised = "TypeError"
    /\ IsArray(args)
    /\ ndim(args.data) = 2
    /\ args.data.v.shape[1] >= 2
    /\ args.draw_average = WrongLast("draw_average")
    /\ before.current_positions # <<>>

(* C6: the series count N that sequence lengths are checked against is the *)
(* number of rows for 2-D data and 1 for 1-D data: with every parameter    *)
(* well typed, the call is accepted when every sequence-valued parameter   *)
(* has length N and fails with ValueError otherwise.                       *)
C6_LengthIsSeriesCount ==
    (/\ IsCall
     /\ HasSeries(args)
     /\ \A name \in Params : WellTyped(args, name))
    => IF SeqLengths(args) \subseteq {SeriesCount(args.data)}
       THEN raised = "none"
       ELSE raised = "ValueError"

(* C7: for 2-D data with N rows and each of label, box_color,              *)
(* average_color, linewidth, draw_whiskers, draw_average, print_average, a *)
(* call with a scalar v of the parameter's type has the same outcome (the  *)
(* exception, the calls to the axes, the registry and the ticks) as the    *)
(* call from the same state with the list of v repeated N times.           *)
C7_ScalarEqualsRepeated ==
    (IsCall /\ IsArray(args) /\ ndim(args.data) = 2)
    => \A name \in Params \ {"position"} :
          isinstance(args[name], ParamType[name])
          => add_boxplot(before,
                         [args EXCEPT ![name] =
                             PyList(Broadcast(args[name], args.data.v.shape[1]))])
             = [exc |-> raised, self |-> Now]

\* A 2-D call with the scalar box_color "blue" has drawn its rows.
C7_Witness ==
    /\ Succeeded
    /\ ndim(args.data) = 2
    /\ args.data.v.shape[1] >= 2
    /\ args.box_color = blue
    /\ Len(calls) >= 2 * 6

\* The arguments of the one-series call for row i of a 2-D call.
SingleArgs(a, i) ==
    [data |-> RowOf(a.data, i),
     position |-> Elem(a.position, i),
     label |-> Elem(a.label, i),
     box_color |-> Elem(a.box_color, i),
     average_color |-> Elem(a.average_color, i),
     linewidth |-> Elem(a.linewidth, i),
     draw_whiskers |-> Elem(a.draw_whiskers, i),
     draw_average |-> Elem(a.draw_average, i),
     print_average |-> Elem(a.print_average, i)]

\* The one-series calls for rows i, i + 1, ... made one after the other.
RECURSIVE SeriesCalls(_, _, _)
SeriesCalls(self, a, i) ==
    IF i > a.data.v.shape[1] THEN [exc |-> "none", self |-> self]
    ELSE LET r == add_boxplot(self, SingleArgs(a, i))
         IN  IF r.exc # "none" THEN r ELSE SeriesCalls(r.self, a, i + 1)

(* C8: a valid call on 2-D data with N rows is equivalent to N one-series  *)
(* calls in row order, the i-th with data[i], position[i], label[i] and    *)
(* the i-th value of every style option: the axes receive the same calls   *)
(* in the same order and the registry and the ticks end the same.          *)
C8_RowsAreSingleCalls ==
    (Succeeded /\ ndim(args.data) = 2)
    => SeriesCalls(before, args, 1) = [exc |-> "none", self |-> Now]

\* A 2-D call has named one new position for two rows under different labels:
\* the position is registered once, under the first row's label.
C8_Witness ==
    /\ Succeeded
    /\ ndim(args.data) = 2
    /\ args.data.v.shape[1] >= 2
    /\ args.position.t = "list"
    /\ args.label.t = "list"
    /\ args.position.v[1] = args.position.v[2]
    /\ args.label.v[1] # args.label.v[2]
    /\ ~Registered(before, args.position.v[1].v)
    /\ LabelsOf(Now, args.position.v[1].v) = {args.label.v[1]}
    /\ Len(current_positions) = Len(before.current_positions) + 1

\* The calls a one-series call is to issue, each with the colour it is handed.
ExpectedCalls(a, isNew) ==
    LET box == Elem(a.box_color, 1)
        avg == Elem(a.average_color, 1)
    IN  <<<<"add_patch", box>>>>
        \o (IF Elem(a.draw_whiskers, 1).v
            THEN <<<<"plot", box>>, <<"plot", box>>, <<"plot", box>>, <<"plot", box>>>>
            ELSE <<>>)
        \o (IF Elem(a.draw_average, 1).v THEN <<<<"plot", avg>>>> ELSE <<>>)
        \o (IF Elem(a.print_average, 1).v THEN <<<<"text", avg>>>> ELSE <<>>)
        \o (IF isNew
            THEN <<<<"set_xticks", PyNone>>, <<"set_xticklabels", PyNone>>>>
            ELSE <<>>)

(* C9: for one valid series the axes receive, in this order: one box       *)
(* rectangle (always), four whisker segments if and only if draw_whiskers, *)
(* one average segment if and only if draw_average, one text if and only   *)
(* if print_average, and only then the tick push, if and only if the       *)
(* position is new; the three flags act independently.                     *)
C9_LeafCallOrder ==
    (Succeeded /\ ndim(args.data) = 1)
    => [k \in DOMAIN calls |-> <<calls[k].op, calls[k].color>>]
       = ExpectedCalls(args, ~Registered(before, IntVal(Elem(args.position, 1))))

\* A one-series call without whiskers, with the average segment and the text,
\* at a new position: the rectangle, one segment, the text, the tick push.
C9_Witness ==
    /\ Succeeded
    /\ ndim(args.data) = 1
    /\ args.draw_whiskers = PyBool(FALSE)
    /\ args.draw_average = PyBool(TRUE)
    /\ args.print_average = PyBool(TRUE)
    /\ ~Registered(before, IntVal(args.position))
    /\ Len(calls) = 5
    /\ calls[3].text = "2.00"

(* C10: every call either completes or fails with TypeError or ValueError, *)
(* whatever the array's dimensionality (0 included) and also when a series *)
(* has no element.                                                         *)
C10_OnlyDocumentedErrors ==
    IsCall => raised \in {"none", "TypeError", "ValueError"}

=============================================================================
